---- MODULE Spec2Model ----
(***************************************************************************)
(* AI readiness advisor: document ingestion (ingestion/pipeline.py), the   *)
(* assessment engine (assessment/engine.py) and the data model             *)
(* (models.py).                                                            *)
(*                                                                         *)
(* Scores are integers in hundredths of a point: 583 is 5.83, a stored     *)
(* one-decimal score is a multiple of 10.  A chunk id is the triple that   *)
(* is hashed, md5 being taken as injective.  A text of the generation      *)
(* service is modelled by what _parse_json makes of it.                    *)
(***************************************************************************)
EXTENDS Integers, Sequences, FiniteSets, TLC

VARIABLES
    pc,               \* position of the session's background task
    gen,              \* the answers the generation service may give in this run
    session_id,       \* the session of the run
    file_paths,       \* the paths handed to ingest_documents
    ing_i,            \* loop index of ingest_documents
    extracted_docs,   \* ingest_documents: extracted_docs
    total_chunks,     \* ingest_documents: total_chunks
    store,            \* ChromaDB: collection name -> set of stored records
    log,              \* what the run did, in order: progress callbacks, functions
                      \* entered, index queries, answers of the generation service
    dimension_scores, \* run_full_assessment: dimension_scores
    overall,          \* run_full_assessment: overall_score, _maturity, _color
    use_cases,        \* run_full_assessment: use_cases
    synthesis,        \* run_full_assessment: synthesis
    roadmap,          \* run_full_assessment: roadmap
    report,           \* the AssessmentReport returned, or NoReport
    status,           \* session record: status, current progress and error
    call_arg,         \* argument of a function applied on its own
    call_ret          \* its result

vars == <<pc, gen, session_id, file_paths, ing_i, extracted_docs, total_chunks,
          store, log, dimension_scores, overall, use_cases, synthesis, roadmap,
          report, status, call_arg, call_ret>>

---------------------------------------------------------------------------
(* Generic helpers *)

Range(s) == {s[i] : i \in 1..Len(s)}

Min(a, b) == IF a <= b THEN a ELSE b

Max(a, b) == IF a >= b THEN a ELSE b

Take(s, n) == SubSeq(s, 1, Min(n, Len(s)))

RECURSIVE SumSeq(_)
SumSeq(s) == IF s = <<>> THEN 0 ELSE Head(s) + SumSeq(Tail(s))

IsPrefix(s, t) == Len(s) <= Len(t) /\ SubSeq(t, 1, Len(s)) = s

None == [none |-> TRUE]

---------------------------------------------------------------------------
(* models.py *)

\* class Dimension: the enum members in definition order (list(Dimension)).
Dimension == <<"Data Readiness", "Technology Infrastructure", "Talent & Skills",
               "Process & Automation Maturity", "Governance & Risk Management",
               "Strategy & Leadership Alignment">>

\* MATURITY_LEVELS, in insertion order; bounds in hundredths (10.1 is 1010).
MATURITY_LEVELS ==
    << [lo |-> 0,   hi |-> 200,  label |-> "Nascent",    color |-> "red"],
       [lo |-> 200, hi |-> 400,  label |-> "Emerging",   color |-> "orange"],
       [lo |-> 400, hi |-> 600,  label |-> "Developing", color |-> "yellow"],
       [lo |-> 600, hi |-> 800,  label |-> "Advanced",   color |-> "green"],
       [lo |-> 800, hi |-> 1010, label |-> "Leading",    color |-> "blue"] >>

InBucket_closedRight(score, b) == b.lo < score /\ score <= b.hi

\* The test of get_maturity's loop: lo <= score < hi.
InBucket(score, b) == b.lo <= score /\ score < b.hi

\* get_maturity(score): the first matching bucket, else ("Nascent", "red").
get_maturity(score) ==
    LET hits == {i \in 1..Len(MATURITY_LEVELS) : InBucket(score, MATURITY_LEVELS[i])}
    IN  IF hits = {}
        THEN [label |-> "Nascent", color |-> "red"]
        ELSE LET i == CHOOSE k \in hits : \A j \in hits : k <= j
             IN  [label |-> MATURITY_LEVELS[i].label, color |-> MATURITY_LEVELS[i].color]

\* round(x, 1) of x = num/den tenths: the nearest tenth; on an exact half the
\* binary value of the float decides, so either neighbour can come out.
RoundNearest(num, den) ==
    LET q == num \div den
        r == num % den
    IN  IF 2 * r < den THEN {q}
        ELSE IF 2 * r > den THEN {q + 1}
        ELSE {q, q + 1}

\* Field(ge=0.0, le=10.0) of DimensionScore.score and AssessmentReport.overall_score.
ScoreFieldValid(score) == 0 <= score /\ score <= 1000

---------------------------------------------------------------------------
(* Results of a call that may raise *)

Ok(v) == [ok |-> TRUE, val |-> v, err |-> ""]

Raise(e) == [ok |-> FALSE, val |-> None, err |-> e]

---------------------------------------------------------------------------
(* JSON values, as json.loads returns them *)

Num(n) == [t |-> "num", n |-> n, v |-> <<>>]

Str(s) == [t |-> "str", n |-> 0, v |-> <<s>>]

List(v) == [t |-> "list", n |-> 0, v |-> v]

Null == [t |-> "null", n |-> 0, v |-> <<>>]

Object(f) == [type |-> "object", fields |-> f, items |-> <<>>]

Array(items) == [type |-> "array", fields |-> <<>>, items |-> items]

HasKey(obj, k) == k \in DOMAIN obj

\* dict.get(k, default) on the fields of an object
Get(obj, k, default) == IF k \in DOMAIN obj THEN obj[k] ELSE default

\* What the generation service answers: the call raises, or it returns a text
\* that json.loads rejects, or a text that parses to a JSON value.
ServiceError == [kind |-> "service_error", json |-> Null]

NotJson == [kind |-> "not_json", json |-> Null]

Text(j) == [kind |-> "json", json |-> j]

\* _call_claude followed by _parse_json
CallAndParse(resp) ==
    IF resp.kind = "service_error" THEN Raise("APIError")
    ELSE IF resp.kind = "not_json" THEN Raise("JSONDecodeError")
    ELSE Ok(resp.json)

---------------------------------------------------------------------------
(* ingestion/pipeline.py: texts are sequences of one-character strings *)

Whitespace == {" ", "\n", "\t"}

RECURSIVE LStrip(_)
LStrip(s) == IF s # <<>> /\ Head(s) \in Whitespace THEN LStrip(Tail(s)) ELSE s

RECURSIVE RStrip(_)
RStrip(s) ==
    IF s # <<>> /\ s[Len(s)] \in Whitespace THEN RStrip(SubSeq(s, 1, Len(s) - 1)) ELSE s

\* str.strip()
Strip(s) == RStrip(LStrip(s))

RECURSIVE DropNewlines(_)
DropNewlines(s) == IF s # <<>> /\ Head(s) = "\n" THEN DropNewlines(Tail(s)) ELSE s

\* re.split(r'\n\n+', text): cut at every maximal run of two or more newlines
RECURSIVE SplitParagraphs(_, _, _)
SplitParagraphs(s, cur, out) ==
    IF s = <<>> THEN Append(out, cur)
    ELSE IF Len(s) >= 2 /\ s[1] = "\n" /\ s[2] = "\n"
         THEN SplitParagraphs(DropNewlines(s), <<>>, Append(out, cur))
         ELSE SplitParagraphs(Tail(s), Append(cur, Head(s)), out)

\* str.split(): cut at runs of whitespace, no empty word
RECURSIVE SplitWords(_, _, _)
SplitWords(s, cur, out) ==
    IF s = <<>> THEN (IF cur = <<>> THEN out ELSE Append(out, cur))
    ELSE IF Head(s) \in Whitespace
         THEN SplitWords(Tail(s), <<>>, IF cur = <<>> THEN out ELSE Append(out, cur))
         ELSE SplitWords(Tail(s), Append(cur, Head(s)), out)

\* [p.strip() for p in re.split(...) if p.strip()]
RECURSIVE StripNonEmpty(_)
StripNonEmpty(ps) ==
    IF ps = <<>> THEN <<>>
    ELSE IF Strip(Head(ps)) = <<>> THEN StripNonEmpty(Tail(ps))
         ELSE <<Strip(Head(ps))>> \o StripNonEmpty(Tail(ps))

Paragraphs(text) == StripNonEmpty(SplitParagraphs(text, <<>>, <<>>))

\* The word loop of an over-long paragraph: [chunks, sub] after the words.
RECURSIVE PackWords(_, _, _, _)
PackWords(words, sub, chunks, size) ==
    IF words = <<>> THEN [chunks |-> chunks, sub |-> sub]
    ELSE LET word == Head(words)
         IN  IF Len(sub) + Len(word) + 1 <= size
             THEN PackWords(Tail(words), Strip(sub \o <<" ">> \o word), chunks, size)
             ELSE PackWords(Tail(words), word,
                            IF sub # <<>> THEN Append(chunks, sub) ELSE chunks, size)

\* The paragraph loop: [chunks, current] after the paragraphs.
RECURSIVE PackParagraphs(_, _, _, _)
PackParagraphs(paras, current, chunks, size) ==
    IF paras = <<>> THEN [chunks |-> chunks, current |-> current]
    ELSE LET para == Head(paras)
         IN  IF Len(current) + Len(para) <= size
             THEN PackParagraphs(Tail(paras), Strip(current \o <<"\n", "\n">> \o para),
                                 chunks, size)
             ELSE LET flushed == IF current # <<>> THEN Append(chunks, current) ELSE chunks
                  IN  IF Len(para) > size
                      THEN LET w == PackWords(SplitWords(para, <<>>, <<>>), <<>>, flushed, size)
                           IN  PackParagraphs(Tail(paras),
                                              IF w.sub # <<>> THEN w.sub ELSE current,
                                              w.chunks, size)
                      ELSE PackParagraphs(Tail(paras), para, flushed, size)

\* the chunks without the buffer left after the last paragraph
CoreChunks_withoutLast(text, size) ==
    PackParagraphs(Paragraphs(text), <<>>, <<>>, size).chunks

\* chunks before the overlap is added
CoreChunks(text, size) ==
    LET p == PackParagraphs(Paragraphs(text), <<>>, <<>>, size)
    IN  IF p.current # <<>> THEN Append(p.chunks, p.current) ELSE p.chunks

\* the whole previous chunk as the prefix
OverlapTail_whole(prev, overlap) == prev

\* chunks[i - 1][-chunk_overlap:] if len(chunks[i - 1]) > chunk_overlap else chunks[i - 1]
OverlapTail(prev, overlap) ==
    IF Len(prev) > overlap THEN SubSeq(prev, Len(prev) - overlap + 1, Len(prev)) ELSE prev

AddOverlap(chunks, overlap) ==
    [i \in 1..Len(chunks) |->
        IF i = 1 THEN chunks[i]
        ELSE OverlapTail(chunks[i - 1], overlap) \o <<"\n">> \o chunks[i]]

\* config.py: Settings.  chunk_size and chunk_overlap are read from the
\* environment; the values here are a small configuration.  top_k_retrieval has
\* its default.
ChunkSize == 8

ChunkOverlap == 2

TopK == 8

settings == [chunk_size |-> ChunkSize, chunk_overlap |-> ChunkOverlap,
             top_k_retrieval |-> TopK, collection_name |-> "enterprise_docs"]

\* x or default: None and 0 are both false
OrDefault(x, default) == IF x = 0 THEN default ELSE x

\* chunk_text(text, chunk_size, chunk_overlap); 0 stands for an argument left out
chunk_text(text, chunk_size, chunk_overlap) ==
    AddOverlap(CoreChunks(text, OrDefault(chunk_size, settings.chunk_size)),
               OrDefault(chunk_overlap, settings.chunk_overlap))

\* the suffix taken as it is spelt
Lower_asSpelt(suffix) == suffix

\* str.lower() on the suffixes of the model
Lower(suffix) ==
    CASE suffix = ".PDF" -> ".pdf"
      [] suffix = ".TXT" -> ".txt"
      [] suffix = ".Docx" -> ".docx"
      [] suffix = ".MD" -> ".md"
      [] suffix = ".XLSX" -> ".xlsx"
      [] OTHER -> suffix

ExtractedDocument(filename, content, page_count, file_type) ==
    [filename |-> filename, content |-> content, page_count |-> page_count,
     file_type |-> file_type]

\* A path of the model: name is path.name, suffix is path.suffix, content the text
\* its parser yields, units the pages of a PDF or the paragraphs of a DOCX,
\* readable whether the parser (or read_text) gets through the file.
extract_pdf(path) ==
    IF path.readable
    THEN Ok(ExtractedDocument(path.name, path.content, path.units, "pdf"))
    ELSE Raise("ValueError: Failed to extract PDF")

extract_docx(path) ==
    IF path.readable
    THEN Ok(ExtractedDocument(path.name, path.content, path.units \div 25 + 1, "docx"))
    ELSE Raise("ValueError: Failed to extract DOCX")

extract_txt(path) ==
    IF path.readable
    THEN Ok(ExtractedDocument(path.name, path.content,
                              Max(1, Len(path.content) \div 3000), "txt"))
    ELSE Raise("OSError")

\* extract_document(path): route on the lower-cased suffix
extract_document(path) ==
    LET suffix == Lower(path.suffix)
    IN  IF suffix = ".pdf" THEN extract_pdf(path)
        ELSE IF suffix \in {".docx", ".doc"} THEN extract_docx(path)
        ELSE IF suffix \in {".txt", ".md"} THEN extract_txt(path)
        ELSE Raise("ValueError: Unsupported file type: " \o suffix)

\* get_collection(session_id): the collection is named by session_id[:8]
get_collection(sid) == sid.head8

\* an id that leaves the ordinal out
chunk_id_noOrdinal(sid, name, j) == <<sid, name, 0>>

\* hashlib.md5(f"{session_id}:{path.name}:{j}"), j counted from 0
chunk_id(sid, name, j) == <<sid, name, j>>

\* The ids, documents and metadatas built for the chunks of one document
ChunkRecords(sid, path, doc, chunks) ==
    [k \in 1..Len(chunks) |->
        [id |-> chunk_id(sid, path.name, k - 1), document |-> chunks[k],
         source |-> path.name, file_type |-> doc.file_type,
         chunk_index |-> k - 1, session_id |-> sid]]

\* collection.upsert: a record replaces the stored record of the same id
Upsert(coll, recs) ==
    {r \in coll : \A k \in 1..Len(recs) : recs[k].id # r.id} \cup Range(recs)

\* for b in range(0, len(ids), batch_size): upsert the slice [b : b + 100]
RECURSIVE UpsertBatches(_, _)
UpsertBatches(coll, recs) ==
    IF recs = <<>> THEN coll
    ELSE UpsertBatches(Upsert(coll, Take(recs, 100)),
                       SubSeq(recs, Min(100, Len(recs)) + 1, Len(recs)))

IngestPct_ofHundred(i, n) == (i * 100) \div n

\* pct = int((i / len(file_paths)) * 40)
IngestPct(i, n) == (i * 40) \div n

SkipTo_abort(i, n) == n

\* except Exception: ... continue -- the loop goes on with the next path
SkipTo(i, n) == i + 1

---------------------------------------------------------------------------
(* assessment/engine.py *)

\* A list field read with parsed.get(k, []) and validated as list[str]
ListFieldOk(obj, k) == Get(obj, k, List(<<>>)).t = "list"

ListField(obj, k) == Get(obj, k, List(<<>>)).v

\* A required string field read with obj[k] and validated as str
StrFieldOk(obj, k) == HasKey(obj, k) /\ obj[k].t = "str"

DimensionListKeys == {"key_strengths", "key_gaps", "evidence_excerpts", "recommendations"}

\* score=round(score, 1): the stored scores round(raw, 1) can yield
StoredScores(raw) == {10 * q : q \in RoundNearest(raw, 10)}

\* assess_dimension, from the service's answer on: the set of its possible
\* results (one, unless the raw score lies exactly between two tenths).
assess_dimension(dimension, resp) ==
    LET p == CallAndParse(resp)
    IN  IF ~p.ok THEN {p}
        ELSE IF p.val.type # "object" THEN {Raise("TypeError")}
        ELSE IF ~HasKey(p.val.fields, "score") THEN {Raise("KeyError: score")}
        ELSE IF p.val.fields["score"].t # "num" THEN {Raise("ValueError: float()")}
        ELSE LET f == p.val.fields
                 raw == f["score"].n
                 m == get_maturity(raw)
             IN  { IF ScoreFieldValid(stored) /\ \A k \in DimensionListKeys : ListFieldOk(f, k)
                   THEN Ok([dimension |-> dimension, score |-> stored,
                            maturity_level |-> m.label, maturity_color |-> m.color,
                            key_strengths |-> ListField(f, "key_strengths"),
                            key_gaps |-> ListField(f, "key_gaps"),
                            evidence_excerpts |-> ListField(f, "evidence_excerpts"),
                            recommendations |-> ListField(f, "recommendations")])
                   ELSE Raise("ValidationError")
                   : stored \in StoredScores(raw) }

\* pct = 45 + int((i / len(dimensions)) * 35)
\* the scoring percentage scaled over the whole bar rather than over its band
ScoringPct_ofHundred(i) == 45 + (i * 100) \div Len(Dimension)

ScoringPct(i) == 45 + (i * 35) \div Len(Dimension)

DimensionAt_reversed(i) == Dimension[Len(Dimension) - i]

\* for i, dim in enumerate(list(Dimension)): the dimension of turn i (from 0)
DimensionAt(i) == Dimension[i + 1]

ScoringDone_early(scores) == Len(scores) >= 1

\* The loop over the dimensions has run to its end
ScoringDone(scores) == Len(scores) = Len(Dimension)

OverallScores_truncated(scores) ==
    {10 * (SumSeq([i \in 1..Len(scores) |-> scores[i].score]) \div (10 * Len(scores)))}

\* round(sum(s.score for s in dimension_scores) / len(dimension_scores), 1)
OverallScores(scores) ==
    {10 * q : q \in RoundNearest(SumSeq([i \in 1..Len(scores) |-> scores[i].score]),
                                 10 * Len(scores))}

\* overall_score with overall_maturity, overall_color = get_maturity(overall_score)
Overall(scores) ==
    {[score |-> o, maturity |-> get_maturity(o).label, color |-> get_maturity(o).color]
        : o \in OverallScores(scores)}

UseCaseStrKeys == {"title", "description", "business_process", "ai_approach",
                   "estimated_complexity", "estimated_roi_impact"}

\* uc.get("priority_rank", i + 1), i counted from 0
RankOf(uc, i) == Get(uc, "priority_rank", Num(i + 1))

\* UseCaseCandidate(...) for item i (from 0) of the response
UseCaseCandidate(uc, i) ==
    IF \E k \in UseCaseStrKeys : ~HasKey(uc, k) THEN Raise("KeyError")
    ELSE IF (\E k \in UseCaseStrKeys : ~StrFieldOk(uc, k))
            \/ ~ListFieldOk(uc, "prerequisites") \/ RankOf(uc, i).t # "num"
         THEN Raise("ValidationError")
         ELSE Ok([title |-> uc["title"].v[1], description |-> uc["description"].v[1],
                  business_process |-> uc["business_process"].v[1],
                  ai_approach |-> uc["ai_approach"].v[1],
                  estimated_complexity |-> uc["estimated_complexity"].v[1],
                  estimated_roi_impact |-> uc["estimated_roi_impact"].v[1],
                  prerequisites |-> ListField(uc, "prerequisites"),
                  priority_rank |-> RankOf(uc, i).n])

\* sorted(use_cases, key=lambda x: x.priority_rank): a stable insertion sort
RECURSIVE InsertByRank(_, _)
InsertByRank(sorted, x) ==
    IF sorted = <<>> THEN <<x>>
    ELSE IF Head(sorted).priority_rank <= x.priority_rank
         THEN <<Head(sorted)>> \o InsertByRank(Tail(sorted), x)
         ELSE <<x>> \o sorted

RECURSIVE SortedByRank(_)
SortedByRank(s) ==
    IF s = <<>> THEN <<>>
    ELSE InsertByRank(SortedByRank(SubSeq(s, 1, Len(s) - 1)), s[Len(s)])

\* identify_use_cases, from the service's answer on
identify_use_cases(resp) ==
    LET p == CallAndParse(resp)
    IN  IF ~p.ok THEN p
        ELSE IF p.val.type # "array" THEN Raise("KeyError: slice")
        ELSE LET items == Take(p.val.items, 5)
                 made == [i \in 1..Len(items) |-> UseCaseCandidate(items[i], i - 1)]
             IN  IF \E i \in 1..Len(items) : ~made[i].ok
                 THEN Raise("KeyError or ValidationError")
                 ELSE Ok(SortedByRank([i \in 1..Len(items) |-> made[i].val]))

\* synthesise, from the service's answer on: the parsed JSON, whatever it is
synthesise(resp) == CallAndParse(resp)

\* a get that yields None for a key left out
SynthesisGet_noDefault(syn, k, default) ==
    IF syn.type # "object" THEN Raise("AttributeError: get") ELSE Ok(Get(syn.fields, k, Null))

\* synthesis.get(key, default): an AttributeError unless synthesis is a dict
SynthesisGet(syn, k, default) ==
    IF syn.type # "object" THEN Raise("AttributeError: get") ELSE Ok(Get(syn.fields, k, default))

\* "\n".join(f"- {b}" for b in critical_blockers): a list or a string iterates
Iterable(v) == v.t \in {"list", "str"}

RoadmapListKeys == {"focus_areas", "key_initiatives", "success_metrics", "dependencies"}

\* RoadmapPhase(...) for one item of the response
RoadmapPhase(ph) ==
    IF ~HasKey(ph, "phase") \/ ~HasKey(ph, "title") \/ ~HasKey(ph, "timeline")
    THEN Raise("KeyError")
    ELSE IF ph["phase"].t # "num" \/ ~StrFieldOk(ph, "title") \/ ~StrFieldOk(ph, "timeline")
            \/ \E k \in RoadmapListKeys : ~ListFieldOk(ph, k)
         THEN Raise("ValidationError")
         ELSE Ok([phase |-> ph["phase"].n, title |-> ph["title"].v[1],
                  timeline |-> ph["timeline"].v[1],
                  focus_areas |-> ListField(ph, "focus_areas"),
                  key_initiatives |-> ListField(ph, "key_initiatives"),
                  success_metrics |-> ListField(ph, "success_metrics"),
                  dependencies |-> ListField(ph, "dependencies")])

\* build_roadmap, from the service's answer on.  Iterating a JSON object yields
\* its keys, and p["phase"] on a key raises; an empty object yields nothing.
build_roadmap(resp) ==
    LET p == CallAndParse(resp)
    IN  IF ~p.ok THEN p
        ELSE IF p.val.type = "object"
             THEN (IF DOMAIN p.val.fields = {} THEN Ok(<<>>) ELSE Raise("TypeError"))
             ELSE LET made == [i \in 1..Len(p.val.items) |-> RoadmapPhase(p.val.items[i])]
                  IN  IF \E i \in 1..Len(made) : ~made[i].ok
                      THEN Raise("KeyError or ValidationError")
                      ELSE Ok([i \in 1..Len(made) |-> made[i].val])

NoReport == [none |-> TRUE]

\* AssessmentReport(...): the fields pydantic validates, and the report
AssessmentReport(docs, ov, syn, scores, ucs, phases) ==
    LET summary == Get(syn.fields, "executive_summary", Str(""))
        blockers == Get(syn.fields, "critical_blockers", List(<<>>))
        wins == Get(syn.fields, "quick_wins", List(<<>>))
    IN  IF syn.type # "object" THEN Raise("AttributeError: get")
        ELSE IF summary.t # "str" \/ blockers.t # "list" \/ wins.t # "list"
                \/ ~ScoreFieldValid(ov.score)
             THEN Raise("ValidationError")
             ELSE Ok([documents_analysed |-> [i \in 1..Len(docs) |-> docs[i].filename],
                      total_pages_analysed |-> SumSeq([i \in 1..Len(docs) |-> docs[i].page_count]),
                      overall_score |-> ov.score, overall_maturity |-> ov.maturity,
                      overall_maturity_color |-> ov.color,
                      executive_summary |-> summary.v[1],
                      dimension_scores |-> scores, use_case_candidates |-> ucs,
                      roadmap_phases |-> phases, critical_blockers |-> blockers.v,
                      quick_wins |-> wins.v])

---------------------------------------------------------------------------
(* The log of a run *)

NoResp == [kind |-> "none", json |-> Null]

\* progress_callback(step, pct); arg is what the step's text names
Progress(step, arg, pct) ==
    [ev |-> "progress", name |-> step, arg |-> arg, pct |-> pct, resp |-> NoResp]

\* a function of the pipeline is entered
Enter(fn, arg) == [ev |-> "enter", name |-> fn, arg |-> arg, pct |-> 0, resp |-> NoResp]

\* search_documents queries the session's collection
Query(sid) ==
    [ev |-> "query", name |-> "search_documents", arg |-> Str(get_collection(sid)),
     pct |-> 0, resp |-> NoResp]

\* a request that carries the turns of an earlier call before its own
RequestRoles_withHistory == <<"user", "assistant", "user">>

\* messages=[{"role": "user", "content": prompt}]: the roles of the messages
\* of one request
RequestRoles == <<"user">>

\* _call_claude was made by fn with its request and the service answered resp
Answer(fn, resp) ==
    [ev |-> "answer", name |-> fn, arg |-> List(RequestRoles), pct |-> 0, resp |-> resp]

\* fn returned normally
Return(fn) == [ev |-> "return", name |-> fn, arg |-> Null, pct |-> 0, resp |-> NoResp]

Events(kind) == SelectSeq(log, LAMBDA e : e.ev = kind)

---------------------------------------------------------------------------
(* The session's background task and status record (api layer) *)

NewStatus == [status |-> "processing", progress_pct |-> 0, current_step |-> "Queued",
              error |-> ""]

\* the progress callback the task hands to the pipeline
Notify(st, e) == [st EXCEPT !.progress_pct = e.pct, !.current_step = e.name]

RECURSIVE NotifyAll(_, _)
NotifyAll(st, es) ==
    IF es = <<>> THEN st
    ELSE NotifyAll(IF Head(es).ev = "progress" THEN Notify(st, Head(es)) ELSE st, Tail(es))

SessionError(st, msg) == [st EXCEPT !.status = "error", !.error = msg]

SessionComplete(st) ==
    [st EXCEPT !.status = "complete", !.progress_pct = 100, !.current_step = "Complete"]

\* The task goes on: the events es happened, the run is now at next
Continue(es, next) ==
    /\ log' = log \o es
    /\ status' = NotifyAll(status, es)
    /\ pc' = next

\* The task ends in error: the events es happened, then msg was raised
Fail(es, msg) ==
    /\ log' = log \o es
    /\ status' = SessionError(NotifyAll(status, es), msg)
    /\ pc' = "error"

---------------------------------------------------------------------------
(* Actions: the session's task *)

StartSession ==
    /\ pc = "pending"
    /\ Continue(<<Enter("ingest_documents", Null)>>, "ingesting")
    /\ ing_i' = 0
    /\ extracted_docs' = <<>>
    /\ total_chunks' = 0
    /\ UNCHANGED <<gen, session_id, file_paths, store, dimension_scores, overall,
                   use_cases, synthesis, roadmap, report, call_arg, call_ret>>

\* One turn of the loop of ingest_documents
IngestDocument ==
    /\ pc = "ingesting"
    /\ ing_i < Len(file_paths)
    /\ LET path == file_paths[ing_i + 1]
           e == Progress("Extracting", Str(path.name), IngestPct(ing_i, Len(file_paths)))
           x == extract_document(path)
           chunks == chunk_text(x.val.content, 0, 0)
           coll == get_collection(session_id)
       IN  /\ Continue(<<e>>, "ingesting")
           /\ IF x.ok
              THEN /\ ing_i' = ing_i + 1
                   /\ extracted_docs' = Append(extracted_docs, x.val)
                   /\ store' = [store EXCEPT ![coll] =
                          UpsertBatches(@, ChunkRecords(session_id, path, x.val, chunks))]
                   /\ total_chunks' = total_chunks + Len(chunks)
              ELSE /\ ing_i' = SkipTo(ing_i, Len(file_paths))
                   /\ UNCHANGED <<extracted_docs, store, total_chunks>>
    /\ UNCHANGED <<gen, session_id, file_paths, dimension_scores, overall, use_cases,
                   synthesis, roadmap, report, call_arg, call_ret>>

\* ingest_documents returns; the task goes on to run_full_assessment
IngestReturn ==
    /\ pc = "ingesting"
    /\ ing_i = Len(file_paths)
    /\ Continue(<<Progress("Documents indexed in vector store.", Null, 45),
                  Return("ingest_documents"), Enter("run_full_assessment", Null)>>,
                "scoring")
    /\ dimension_scores' = <<>>
    /\ UNCHANGED <<gen, session_id, file_paths, ing_i, extracted_docs, total_chunks,
                   store, overall, use_cases, synthesis, roadmap, report,
                   call_arg, call_ret>>

\* an index whose session collection is emptied by a search
AfterSearch_emptied(st, sid) == [st EXCEPT ![get_collection(sid)] = {}]

\* The index after search_documents(query, sid): get_or_create_collection
\* leaves an existing collection as it is, count and query only read.
AfterSearch(st, sid) == st

\* Step 1, one dimension
AssessDimension ==
    /\ pc = "scoring"
    /\ ~ScoringDone(dimension_scores)
    /\ LET i == Len(dimension_scores)
           dim == DimensionAt(i)
       IN  \E resp \in gen.dimension[i + 1] : \E r \in assess_dimension(dim, resp) :
              LET es == <<Progress("Analysing", Str(dim), ScoringPct(i)),
                          Enter("assess_dimension", Str(dim)), Query(session_id),
                          Answer("assess_dimension", resp)>>
              IN  IF r.ok
                  THEN /\ Continue(es \o <<Return("assess_dimension")>>, "scoring")
                       /\ dimension_scores' = Append(dimension_scores, r.val)
                  ELSE /\ Fail(es, r.err)
                       /\ UNCHANGED dimension_scores
    /\ store' = AfterSearch(store, session_id)
    /\ UNCHANGED <<gen, session_id, file_paths, ing_i, extracted_docs, total_chunks,
                   overall, use_cases, synthesis, roadmap, report,
                   call_arg, call_ret>>

\* The overall score, then Step 2
IdentifyUseCases ==
    /\ pc = "scoring"
    /\ ScoringDone(dimension_scores)
    /\ \E ov \in Overall(dimension_scores) : \E resp \in gen.use_cases :
          LET r == identify_use_cases(resp)
              es == <<Progress("Identifying AI use case candidates...", Null, 82),
                      Enter("identify_use_cases", Null), Query(session_id),
                      Answer("identify_use_cases", resp)>>
          IN  /\ overall' = ov
              /\ IF r.ok
                 THEN /\ Continue(es \o <<Return("identify_use_cases")>>, "synthesis")
                      /\ use_cases' = r.val
                 ELSE /\ Fail(es, r.err)
                      /\ UNCHANGED use_cases
    /\ store' = AfterSearch(store, session_id)
    /\ UNCHANGED <<gen, session_id, file_paths, ing_i, extracted_docs, total_chunks,
                   dimension_scores, synthesis, roadmap, report,
                   call_arg, call_ret>>

\* Step 3
Synthesise ==
    /\ pc = "synthesis"
    /\ \E resp \in gen.synthesis :
          LET r == synthesise(resp)
              es == <<Progress("Synthesising executive summary...", Null, 88),
                      Enter("synthesise", Null), Answer("synthesise", resp)>>
          IN  IF r.ok
              THEN /\ Continue(es \o <<Return("synthesise")>>, "roadmap")
                   /\ synthesis' = r.val
              ELSE /\ Fail(es, r.err)
                   /\ UNCHANGED synthesis
    /\ UNCHANGED <<gen, session_id, file_paths, ing_i, extracted_docs, total_chunks,
                   store, dimension_scores, overall, use_cases, roadmap, report,
                   call_arg, call_ret>>

RoadmapBlockers_default(syn) == Ok(List(<<>>))

\* critical_blockers=synthesis.get("critical_blockers", [])
RoadmapBlockers(syn) == SynthesisGet(syn, "critical_blockers", List(<<>>))

\* Step 4
BuildRoadmap ==
    /\ pc = "roadmap"
    /\ LET e == Progress("Building adoption roadmap...", Null, 93)
           b == RoadmapBlockers(synthesis)
       IN  IF ~b.ok
           THEN Fail(<<e>>, b.err) /\ UNCHANGED roadmap
           ELSE IF ~Iterable(b.val)
           THEN Fail(<<e, Enter("build_roadmap", b.val)>>, "TypeError") /\ UNCHANGED roadmap
           ELSE \E resp \in gen.roadmap :
                   LET r == build_roadmap(resp)
                       es == <<e, Enter("build_roadmap", b.val), Answer("build_roadmap", resp)>>
                   IN  IF r.ok
                       THEN Continue(es \o <<Return("build_roadmap")>>, "assemble")
                            /\ roadmap' = r.val
                       ELSE Fail(es, r.err) /\ UNCHANGED roadmap
    /\ UNCHANGED <<gen, session_id, file_paths, ing_i, extracted_docs, total_chunks,
                   store, dimension_scores, overall, use_cases, synthesis, report,
                   call_arg, call_ret>>

\* The report is assembled and returned; the task stores it
AssembleReport ==
    /\ pc = "assemble"
    /\ LET es == <<Progress("Finalising report...", Null, 98), Enter("AssessmentReport", Null)>>
           r == AssessmentReport(extracted_docs, overall, synthesis, dimension_scores,
                                 use_cases, roadmap)
       IN  IF r.ok
           THEN /\ log' = log \o es \o <<Return("run_full_assessment")>>
                /\ status' = SessionComplete(NotifyAll(status, es))
                /\ pc' = "complete"
                /\ report' = r.val
           ELSE Fail(es, r.err) /\ UNCHANGED report
    /\ UNCHANGED <<gen, session_id, file_paths, ing_i, extracted_docs, total_chunks,
                   store, dimension_scores, overall, use_cases, synthesis, roadmap,
                   call_arg, call_ret>>

Next ==
    \/ StartSession
    \/ IngestDocument
    \/ IngestReturn
    \/ AssessDimension
    \/ IdentifyUseCases
    \/ Synthesise
    \/ BuildRoadmap
    \/ AssembleReport

---------------------------------------------------------------------------
(* Inputs *)

\* the longest list of paths a session is given
MaxFiles == 3

\* "aaa bbb", a blank line, "cc dd": two chunks at chunk_size 8
NotesTxt == [dir |-> "uploads", name |-> "notes.txt", suffix |-> ".txt", readable |-> TRUE,
             content |-> <<"a", "a", "a", " ", "b", "b", "b", "\n", "\n", "c", "c", " ", "d", "d">>,
             units |-> 0]

\* a DOCX of 30 paragraphs whose text is one chunk
PlanDocx == [dir |-> "uploads", name |-> "plan.docx", suffix |-> ".docx", readable |-> TRUE,
             content |-> <<"p", "l", "a", "n">>, units |-> 30]

\* a PDF the parser fails on
CorruptPdf == [dir |-> "uploads", name |-> "corrupt.pdf", suffix |-> ".pdf", readable |-> FALSE,
               content |-> <<>>, units |-> 0]

\* an extension no extractor takes
SheetXlsx == [dir |-> "uploads", name |-> "sheet.xlsx", suffix |-> ".xlsx", readable |-> TRUE,
              content |-> <<"x">>, units |-> 0]

InputFiles == {NotesTxt, PlanDocx, CorruptPdf, SheetXlsx}

FileLists == UNION {[1..n -> InputFiles] : n \in 0..MaxFiles}

SessionA == [head8 |-> "a1b2c3d4", tail |-> "-0001"]

Sessions == {SessionA}

CollectionNames == {get_collection(sid) : sid \in Sessions}

\* a JSON object with key k set to v
WithKey(f, k, v) == [x \in DOMAIN f \cup {k} |-> IF x = k THEN v ELSE f[x]]

EmptyObject == [x \in {} |-> Null]

\* answers to the dimension prompt
DimensionJson(raw) ==
    Object([k \in {"score"} \cup DimensionListKeys |->
               IF k = "score" THEN Num(raw) ELSE List(<<"item">>)])

DimensionOk(raw) == Text(DimensionJson(raw))

DimensionNoScore == Text(Object([k \in DimensionListKeys |-> List(<<"item">>)]))

\* answers to the use-case prompt; rank 0 stands for an item without priority_rank
UseCaseItem(title, approach, rank) ==
    LET base == [k \in UseCaseStrKeys \cup {"prerequisites"} |->
                    IF k = "prerequisites" THEN List(<<"data">>)
                    ELSE IF k = "title" THEN Str(title)
                    ELSE IF k = "ai_approach" THEN Str(approach)
                    ELSE Str("Medium")]
    IN  IF rank = 0 THEN base ELSE WithKey(base, "priority_rank", Num(rank))

UseCaseTitles == <<"uc-a", "uc-b", "uc-c", "uc-d", "uc-e", "uc-f", "uc-g">>

\* the answer whose items carry the ranks given, in that order
UseCaseAnswer(ranks) ==
    Text(Array([i \in 1..Len(ranks) |-> UseCaseItem(UseCaseTitles[i], "RAG", ranks[i])]))

\* answers to the synthesis prompt
SynthesisFull ==
    Text(Object([k \in {"executive_summary", "critical_blockers", "quick_wins"} |->
                    IF k = "executive_summary" THEN Str("summary")
                    ELSE IF k = "critical_blockers" THEN List(<<"no data team">>)
                    ELSE List(<<"pilot">>)]))

SynthesisNoKeys == Text(Object(EmptyObject))

SynthesisArray == Text(Array(<<>>))

SynthesisNullBlockers ==
    Text(Object(WithKey(SynthesisFull.json.fields, "critical_blockers", Null)))

SynthesisTextWins ==
    Text(Object(WithKey(SynthesisFull.json.fields, "quick_wins", Str("pilot"))))

\* answers to the roadmap prompt
PhaseItem(n) ==
    [k \in {"phase", "title", "timeline"} \cup RoadmapListKeys |->
        IF k = "phase" THEN Num(n)
        ELSE IF k \in {"title", "timeline"} THEN Str("Months")
        ELSE List(<<"item">>)]

RoadmapAnswer(phases) == Text(Array([i \in 1..Len(phases) |-> PhaseItem(phases[i])]))

RoadmapNoTitle ==
    Text(Array(<<[k \in {"phase", "timeline"} |-> IF k = "phase" THEN Num(1) ELSE Str("Months")]>>))

\* The service of the pipeline runs: every stage can fail in every way
GenFull ==
    [dimension |-> [i \in 1..Len(Dimension) |->
                       {DimensionOk(730), ServiceError, NotJson, DimensionNoScore}],
     use_cases |-> {UseCaseAnswer(<<1, 2, 3, 4, 5>>), UseCaseAnswer(<<2, 0, 1>>),
                    ServiceError, NotJson, Text(Object(EmptyObject))},
     synthesis |-> {SynthesisFull, SynthesisNoKeys, SynthesisArray, SynthesisNullBlockers,
                    SynthesisTextWins, ServiceError, NotJson},
     roadmap |-> {RoadmapAnswer(<<1, 2, 3>>), RoadmapAnswer(<<2, 1>>), RoadmapNoTitle,
                  ServiceError, NotJson}]

NotYet == [none |-> TRUE]

InitRun(files, g) ==
    /\ pc = "pending"
    /\ gen = g
    /\ session_id = SessionA
    /\ file_paths = files
    /\ ing_i = 0
    /\ extracted_docs = <<>>
    /\ total_chunks = 0
    /\ store = [c \in CollectionNames |-> {}]
    /\ log = <<>>
    /\ dimension_scores = <<>>
    /\ overall = NotYet
    /\ use_cases = <<>>
    /\ synthesis = NotYet
    /\ roadmap = <<>>
    /\ report = NoReport
    /\ status = NewStatus
    /\ call_arg = None
    /\ call_ret = None

Init == \E files \in FileLists : InitRun(files, GenFull)

Spec == Init /\ [][Next]_vars

---------------------------------------------------------------------------
(* Reading the log *)

Names(es) == [i \in 1..Len(es) |-> es[i].name]

\* positions of the log where fn is entered, answered, or returns
At(kind, fn) == {k \in 1..Len(log) : log[k].ev = kind /\ log[k].name = fn}

Entered(fn) == At("enter", fn) # {}

Returned(fn) == At("return", fn) # {}

\* the percentages passed to the progress callback, in order
Percentages ==
    LET es == Events("progress")
    IN  [i \in 1..Len(es) |-> es[i].pct]

---------------------------------------------------------------------------
(* C1: the stages of a run *)

StageOrder ==
    <<"ingest_documents", "run_full_assessment">>
    \o [i \in 1..Len(Dimension) |-> "assess_dimension"]
    \o <<"identify_use_cases", "synthesise", "build_roadmap", "AssessmentReport">>

\* C1: the functions of the pipeline are entered in the order ingestion, the six
\* dimension scorings, use-case identification, synthesis, roadmap building,
\* report assembly, none of them twice; use-case identification is entered only
\* with six dimension scores stored, synthesis only after use-case
\* identification has returned, roadmap building only after synthesis has
\* returned, and with the critical_blockers of the synthesis as its argument.
C1_StagesInOrder ==
    /\ IsPrefix(Names(Events("enter")), StageOrder)
    /\ \A k \in At("enter", "identify_use_cases") :
          /\ Len(dimension_scores) = Len(Dimension)
          /\ Cardinality({j \in At("return", "assess_dimension") : j < k}) = Len(Dimension)
    /\ \A k \in At("enter", "synthesise") :
          \E j \in At("return", "identify_use_cases") : j < k
    /\ \A k \in At("enter", "build_roadmap") :
          /\ \E j \in At("return", "synthesise") : j < k
          /\ synthesis.type = "object"
          /\ HasKey(synthesis.fields, "critical_blockers")
                => log[k].arg = synthesis.fields["critical_blockers"]
          /\ ~HasKey(synthesis.fields, "critical_blockers") => log[k].arg = List(<<>>)

\* a run whose roadmap was built from blockers the synthesis named
C1_Witness ==
    /\ pc = "complete"
    /\ \E k \in At("enter", "build_roadmap") : log[k].arg = List(<<"no data team">>)

---------------------------------------------------------------------------
(* C2: a failed generation call ends the run *)

\* The answer does not match the schema of fn's prompt: the wrong JSON type at
\* the top, a required field missing, or a field of the wrong type.
SchemaViolating(fn, j) ==
    CASE fn = "assess_dimension" ->
            \/ j.type # "object"
            \/ ~HasKey(j.fields, "score")
            \/ j.fields["score"].t # "num"
            \/ \E k \in DimensionListKeys : ~ListFieldOk(j.fields, k)
      [] fn = "identify_use_cases" ->
            \/ j.type # "array"
            \/ \E i \in 1..Len(j.items) : \E k \in UseCaseStrKeys : ~StrFieldOk(j.items[i], k)
      [] fn = "synthesise" ->
            \/ j.type # "object"
            \/ Get(j.fields, "executive_summary", Str("")).t # "str"
            \/ Get(j.fields, "critical_blockers", List(<<>>)).t # "list"
            \/ Get(j.fields, "quick_wins", List(<<>>)).t # "list"
      [] fn = "build_roadmap" ->
            \/ j.type # "array"
            \/ \E i \in 1..Len(j.items) :
                  \/ ~HasKey(j.items[i], "phase")
                  \/ ~StrFieldOk(j.items[i], "title")
                  \/ ~StrFieldOk(j.items[i], "timeline")
      [] OTHER -> FALSE

\* the generation call answered at position k of the log failed
FailedAnswer(k) ==
    /\ log[k].ev = "answer"
    /\ \/ log[k].resp.kind \in {"service_error", "not_json"}
       \/ SchemaViolating(log[k].name, log[k].resp.json)

\* C2: after a generation call that failed with a service error or with an
\* unparseable or schema-violating answer, no stage is entered, no generation
\* call is made (the failed one is not made again either), no progress is
\* reported, no report is produced, and the session does not complete.
C2_FailedCallEndsRun ==
    \A k \in 1..Len(log) :
        FailedAnswer(k) =>
            /\ \A j \in (k + 1)..Len(log) : log[j].ev \notin {"enter", "answer", "progress"}
            /\ pc # "complete"
            /\ status.status # "complete"
            /\ report = NoReport

---------------------------------------------------------------------------
(* C3, C4: progress *)

\* C3: the percentages passed to the progress callback by ingest_documents and
\* then run_full_assessment never decrease.
C3_ProgressMonotone ==
    LET pcts == Percentages
    IN  \A i \in 1..Len(pcts) : \A j \in i..Len(pcts) : pcts[i] <= pcts[j]

\* a complete run over three paths, one of which could not be extracted
C3_Witness ==
    /\ pc = "complete"
    /\ Len(file_paths) = 3
    /\ Len(extracted_docs) = 2

\* the band of the stage that reports under the step text
InBand(step, pct) ==
    CASE step = "Extracting" -> 0 <= pct /\ pct <= 45
      [] step = "Documents indexed in vector store." -> pct = 45
      [] step = "Analysing" -> 45 <= pct /\ pct <= 80
      [] step = "Identifying AI use case candidates..." -> pct = 82
      [] step = "Synthesising executive summary..." -> pct = 88
      [] step = "Building adoption roadmap..." -> pct = 93
      [] step = "Finalising report..." -> 93 < pct /\ pct <= 100
      [] OTHER -> FALSE

\* C4: every percentage reported lies in 0..100 and in the band of its stage:
\* ingestion in 0..45 and at 45 when it returns, dimension scoring in 45..80,
\* use cases 82, synthesis 88, roadmap 93, finalisation above 93; the progress of
\* a complete session is 100.
C4_ProgressBands ==
    /\ \A k \in 1..Len(log) :
          log[k].ev = "progress" =>
              /\ 0 <= log[k].pct /\ log[k].pct <= 100
              /\ InBand(log[k].name, log[k].pct)
    /\ \A k \in At("return", "ingest_documents") :
          k > 1 /\ log[k - 1].ev = "progress" /\ log[k - 1].pct = 45
    /\ 0 <= status.progress_pct /\ status.progress_pct <= 100
    /\ pc = "complete" => status.progress_pct = 100

\* a complete session whose log holds the six scoring percentages and 98
C4_Witness ==
    /\ pc = "complete"
    /\ status.progress_pct = 100
    /\ {74, 98} \subseteq Range(Percentages)

---------------------------------------------------------------------------
(* C5, C6: ingestion *)

\* the turns of the loop whose document can be extracted
Extractable == {i \in 1..Len(file_paths) : extract_document(file_paths[i]).ok}

\* the records ingestion is to store for path i
ExpectedRecords(i) ==
    LET doc == extract_document(file_paths[i]).val
    IN  Range(ChunkRecords(session_id, file_paths[i], doc, chunk_text(doc.content, 0, 0)))

RECURSIVE SumOver(_, _)
SumOver(S, f) ==
    IF S = {} THEN 0
    ELSE LET x == CHOOSE y \in S : TRUE IN f[x] + SumOver(S \ {x}, f)

\* C5: when ingest_documents returns, every path whose extraction succeeds is
\* in the returned documents (in the order of the paths), chunked and indexed,
\* whatever failed before or after it; a path whose extraction fails is in
\* neither the returned documents, nor the index, nor the chunk count.
C5_FailedDocumentSkipped ==
    Returned("ingest_documents") =>
        /\ Len(extracted_docs) = Cardinality(Extractable)
        /\ \A i \in Extractable :
              /\ extracted_docs[Cardinality({j \in Extractable : j <= i})].filename
                    = file_paths[i].name
              /\ ExpectedRecords(i) \subseteq store[get_collection(session_id)]
        /\ \A i \in (1..Len(file_paths)) \ Extractable :
              /\ \A d \in 1..Len(extracted_docs) :
                    extracted_docs[d].filename # file_paths[i].name
              /\ \A r \in store[get_collection(session_id)] : r.source # file_paths[i].name
        /\ total_chunks = SumOver(Extractable,
              [i \in Extractable |->
                  Len(chunk_text(extract_document(file_paths[i]).val.content, 0, 0))])

\* ingestion returned after a failed path that was followed by an extractable one
C5_Witness ==
    /\ Returned("ingest_documents")
    /\ \E i, j \in 1..Len(file_paths) : i < j /\ i \notin Extractable /\ j \in Extractable
    /\ total_chunks >= 2

---------------------------------------------------------------------------
(* Functions applied on their own: call_arg is drawn by Init, the action
   applies the function and leaves its result in call_ret *)

InitCall(arg) ==
    /\ pc = "call"
    /\ gen = GenFull
    /\ session_id = SessionA
    /\ file_paths = <<>>
    /\ ing_i = 0
    /\ extracted_docs = <<>>
    /\ total_chunks = 0
    /\ store = [c \in CollectionNames |-> {}]
    /\ log = <<>>
    /\ dimension_scores = <<>>
    /\ overall = NotYet
    /\ use_cases = <<>>
    /\ synthesis = NotYet
    /\ roadmap = <<>>
    /\ report = NoReport
    /\ status = NewStatus
    /\ call_arg = arg
    /\ call_ret = None

\* scores on the one-decimal grid from 0.0 to 10.0
GridScores == {10 * t : t \in 0..100}

CallGetMaturity ==
    /\ pc = "call"
    /\ pc' = "returned"
    /\ call_ret' = get_maturity(call_arg)
    /\ UNCHANGED <<gen, session_id, file_paths, ing_i, extracted_docs, total_chunks,
                   store, log, dimension_scores, overall, use_cases, synthesis,
                   roadmap, report, status, call_arg>>

InitMaturity == \E s \in GridScores : InitCall(s)

NextMaturity == CallGetMaturity

SpecMaturity == InitMaturity /\ [][NextMaturity]_vars

\* the partition of the score range into the five labels, with their colours
PartitionLabel(s) ==
    IF s < 200 THEN "Nascent"
    ELSE IF s < 400 THEN "Emerging"
    ELSE IF s < 600 THEN "Developing"
    ELSE IF s < 800 THEN "Advanced"
    ELSE "Leading"

LabelColour(label) ==
    CASE label = "Nascent" -> "red"
      [] label = "Emerging" -> "orange"
      [] label = "Developing" -> "yellow"
      [] label = "Advanced" -> "green"
      [] label = "Leading" -> "blue"

\* C7: for every score of the one-decimal grid of [0,10], get_maturity returns
\* the label of the partition [0,2) Nascent, [2,4) Emerging, [4,6) Developing,
\* [6,8) Advanced, [8,10] Leading -- 2, 4, 6 and 8 in the upper bucket, 10.0
\* Leading -- and the colour paired with that label.
C7_MaturityPartition ==
    pc = "returned" =>
        /\ call_ret.label = PartitionLabel(call_arg)
        /\ call_ret.color = LabelColour(call_ret.label)

\* get_maturity(4.0) returned Developing
C7_Witness ==
    /\ pc = "returned"
    /\ call_arg = 400
    /\ call_ret.label = "Developing"

---------------------------------------------------------------------------
(* C8: the overall score -- runs in which the service's scores vary *)

\* the raw scores the service may give, dimension by dimension
ScoreInputs ==
    << {100, 200, 996}, {100, 400, 13}, {100, 600, 333},
       {100, 800, 747}, {100, 1000, 204}, {100, 500, 460} >>

GenScores ==
    [dimension |-> [i \in 1..Len(Dimension) |-> {DimensionOk(r) : r \in ScoreInputs[i]}],
     use_cases |-> {UseCaseAnswer(<<1, 2, 3, 4, 5>>)},
     synthesis |-> {SynthesisFull},
     roadmap |-> {RoadmapAnswer(<<1, 2, 3>>)}]

InitScores == InitRun(<<NotesTxt>>, GenScores)

SpecScores == InitScores /\ [][Next]_vars

StoredScoresOf(scores) == [i \in 1..Len(scores) |-> scores[i].score]

\* C8: the report's overall_score is the mean of the six stored dimension scores
\* rounded to one decimal (a multiple of 0.1 at most 0.05 from the mean), and
\* overall_maturity is the label of overall_score; [2.0, 4.0, 6.0, 8.0, 10.0,
\* 5.0] gives 5.8 and Developing, six equal scores s give s and the label of s.
C8_OverallScore ==
    pc = "complete" =>
        LET stored == StoredScoresOf(report.dimension_scores)
            sum == SumSeq(stored)
            o == report.overall_score
            dist == 6 * o - sum
        IN  /\ Len(stored) = 6
            /\ o % 10 = 0
            /\ -30 <= dist /\ dist <= 30
            /\ report.overall_maturity = get_maturity(o).label
            /\ stored = <<200, 400, 600, 800, 1000, 500>>
                  => o = 580 /\ report.overall_maturity = "Developing"
            /\ (\A i \in 1..6 : stored[i] = stored[1])
                  => o = stored[1] /\ report.overall_maturity = get_maturity(stored[1]).label
            /\ (\A i \in 1..6 : stored[i] = 100)
                  => o = 100 /\ report.overall_maturity = "Nascent"

\* the report of the scores 2.0, 4.0, 6.0, 8.0, 10.0, 5.0 carries 5.8
C8_Witness ==
    /\ pc = "complete"
    /\ StoredScoresOf(report.dimension_scores) = <<200, 400, 600, 800, 1000, 500>>
    /\ report.overall_score = 580

---------------------------------------------------------------------------
(* C9: the dimension scores of a report *)

\* C9: a report holds exactly six DimensionScores, one for each dimension, in
\* the order of the enum.
C9_SixDimensionsInOrder ==
    pc = "complete" =>
        [i \in 1..Len(report.dimension_scores) |-> report.dimension_scores[i].dimension]
            = <<"Data Readiness", "Technology Infrastructure", "Talent & Skills",
                "Process & Automation Maturity", "Governance & Risk Management",
                "Strategy & Leadership Alignment">>

\* a report was produced, and its last score is the one of the sixth dimension
C9_Witness ==
    /\ pc = "complete"
    /\ Len(report.dimension_scores) = 6
    /\ report.dimension_scores[6].dimension = "Strategy & Leadership Alignment"

---------------------------------------------------------------------------
(* C10: identify_use_cases on the answers of the service *)

\* the longest answer, in items
MaxItems == 6

\* the largest priority_rank of the enumerated answers; 0 is an item without one
MaxRankInput == 2

RankLists ==
    UNION {[1..n -> 0..MaxRankInput] : n \in 0..MaxItems}
    \cup {<<1, 2, 3, 4, 5>>, <<5, 4, 3, 2, 1>>, <<3, 1, 2, 5, 4>>, <<1, 2, 3, 4, 5, 6>>,
          <<1, 2, 3, 4, 7>>}

UseCaseAnswers ==
    {UseCaseAnswer(ranks) : ranks \in RankLists}
    \cup {ServiceError, NotJson, Text(Object(EmptyObject))}

CallIdentifyUseCases ==
    /\ pc = "call"
    /\ pc' = "returned"
    /\ call_ret' = identify_use_cases(call_arg)
    /\ UNCHANGED <<gen, session_id, file_paths, ing_i, extracted_docs, total_chunks,
                   store, log, dimension_scores, overall, use_cases, synthesis,
                   roadmap, report, status, call_arg>>

InitUseCases == \E a \in UseCaseAnswers : InitCall(a)

NextUseCases == CallIdentifyUseCases

SpecUseCases == InitUseCases /\ [][NextUseCases]_vars

\* C10: the candidates identify_use_cases returns are sorted ascending by
\* priority_rank, every priority_rank is in 1..5, and no two candidates share a
\* priority_rank.
C10_RanksSortedInRangeUnique ==
    (pc = "returned" /\ call_ret.ok) =>
        LET ucs == call_ret.val
        IN  /\ \A i \in 1..Len(ucs) : \A j \in i..Len(ucs) :
                  ucs[i].priority_rank <= ucs[j].priority_rank
            /\ \A i \in 1..Len(ucs) : ucs[i].priority_rank \in 1..5
            /\ \A i \in 1..Len(ucs) : \A j \in 1..Len(ucs) :
                  i # j => ucs[i].priority_rank # ucs[j].priority_rank

---------------------------------------------------------------------------
(* C11: build_roadmap on the answers of the service *)

\* the longest enumerated roadmap answer, in phases
MaxPhases == 4

\* the largest phase number of the enumerated answers
MaxPhaseInput == 3

PhaseLists == UNION {[1..n -> 1..MaxPhaseInput] : n \in 0..MaxPhases}

RoadmapAnswers ==
    {RoadmapAnswer(phases) : phases \in PhaseLists}
    \cup {RoadmapNoTitle, ServiceError, NotJson, Text(Object(EmptyObject))}

CallBuildRoadmap ==
    /\ pc = "call"
    /\ pc' = "returned"
    /\ call_ret' = build_roadmap(call_arg)
    /\ UNCHANGED <<gen, session_id, file_paths, ing_i, extracted_docs, total_chunks,
                   store, log, dimension_scores, overall, use_cases, synthesis,
                   roadmap, report, status, call_arg>>

InitRoadmap == \E a \in RoadmapAnswers : InitCall(a)

NextRoadmap == CallBuildRoadmap

SpecRoadmap == InitRoadmap /\ [][NextRoadmap]_vars

\* C11: the roadmap build_roadmap returns has exactly three phases and their
\* phase numbers are 1, 2 and 3, each once.
C11_ThreePhasesNumberedOnce ==
    (pc = "returned" /\ call_ret.ok) =>
        LET phases == call_ret.val
        IN  /\ Len(phases) = 3
            /\ {phases[i].phase : i \in 1..Len(phases)} = {1, 2, 3}

---------------------------------------------------------------------------
(* C12: the ai_approach of the candidates *)

\* the approaches USE_CASE_PROMPT asks the service to choose from
PromptApproaches ==
    {"RAG", "Fine-tuned classifier", "Agentic workflow", "Predictive model",
     "Generative AI", "Computer vision", "NLP pipeline"}

\* what the service may put in ai_approach: the prompt's approaches and others
ApproachInputs == PromptApproaches \cup {"Blockchain", "rag"}

\* the longest enumerated answer of this specification, in items
MaxApproachItems == 2

ApproachAnswers ==
    {Text(Array([i \in 1..Len(as) |-> UseCaseItem(UseCaseTitles[i], as[i], i)])) :
        as \in UNION {[1..n -> ApproachInputs] : n \in 1..MaxApproachItems}}
    \cup {ServiceError, NotJson}

InitApproaches == \E a \in ApproachAnswers : InitCall(a)

SpecApproaches == InitApproaches /\ [][NextUseCases]_vars

\* C12: every candidate identify_use_cases returns has an ai_approach of the
\* closed vocabulary RAG, Fine-tuned classifier, Agentic workflow, Predictive
\* model, Generative AI, Computer vision, NLP pipeline.
C12_ApproachInVocabulary ==
    (pc = "returned" /\ call_ret.ok) =>
        \A i \in 1..Len(call_ret.val) :
            call_ret.val[i].ai_approach \in
                {"RAG", "Fine-tuned classifier", "Agentic workflow", "Predictive model",
                 "Generative AI", "Computer vision", "NLP pipeline"}

---------------------------------------------------------------------------
(* C13: assess_dimension on the answers of the service *)

\* the raw scores enumerated lie within this many hundredths of 0.0 and of 10.0
RawMargin == 12

RawScores ==
    (-RawMargin..RawMargin) \cup ((1000 - RawMargin)..(1000 + RawMargin)) \cup {196, 500, 730}

\* an answer that carries the score and none of the list fields
DimensionScoreOnly(raw) == Text(Object([k \in {"score"} |-> Num(raw)]))

\* an answer whose key_gaps is a string
DimensionTextGaps ==
    Text(Object(WithKey(DimensionJson(500).fields, "key_gaps", Str("none"))))

DimensionAnswers ==
    {DimensionOk(raw) : raw \in RawScores}
    \cup {DimensionScoreOnly(raw) : raw \in RawScores}
    \cup {DimensionNoScore, DimensionTextGaps, ServiceError, NotJson,
          Text(Array(<<>>)), Text(Object(EmptyObject))}

CallAssessDimension ==
    /\ pc = "call"
    /\ pc' = "returned"
    /\ \E r \in assess_dimension(DimensionAt(0), call_arg) : call_ret' = r
    /\ UNCHANGED <<gen, session_id, file_paths, ing_i, extracted_docs, total_chunks,
                   store, log, dimension_scores, overall, use_cases, synthesis,
                   roadmap, report, status, call_arg>>

InitDimension == \E a \in DimensionAnswers : InitCall(a)

NextDimension == CallAssessDimension

SpecDimension == InitDimension /\ [][NextDimension]_vars

\* the answer is a JSON object that carries a numeric score
CarriesScore(resp) ==
    /\ resp.kind = "json"
    /\ resp.json.type = "object"
    /\ HasKey(resp.json.fields, "score")
    /\ resp.json.fields["score"].t = "num"

\* C13: an answer that is not valid JSON, lacks the score, or carries a score
\* outside [0,10] raises and yields no DimensionScore; an answer with a score in
\* [0,10] that lacks the four list fields yields a DimensionScore whose lists
\* are empty.
C13_NoFallbackScore ==
    pc = "returned" =>
        /\ ~CarriesScore(call_arg) => ~call_ret.ok
        /\ (CarriesScore(call_arg)
              /\ (call_arg.json.fields["score"].n < 0 \/ call_arg.json.fields["score"].n > 1000))
              => ~call_ret.ok
        /\ (CarriesScore(call_arg) /\ DOMAIN call_arg.json.fields = {"score"}
              /\ call_arg.json.fields["score"].n \in 0..1000)
              => /\ call_ret.ok
                 /\ call_ret.val.key_strengths = <<>>
                 /\ call_ret.val.key_gaps = <<>>
                 /\ call_ret.val.evidence_excerpts = <<>>
                 /\ call_ret.val.recommendations = <<>>

---------------------------------------------------------------------------
(* The retrieval index under several sessions: ingest_documents and
   search_documents, called in any order for any session *)

\* a session whose id shares its first eight characters with SessionA's
SessionB == [head8 |-> "a1b2c3d4", tail |-> "-0002"]

SessionC == [head8 |-> "c0ffee00", tail |-> "-0003"]

IndexSessions == {SessionA, SessionB, SessionC}

IndexCollections == {get_collection(sid) : sid \in IndexSessions}

\* the paths ingested into the index: two chunks, or none
IndexFiles == {NotesTxt, SheetXlsx}

\* the largest n_results asked of search_documents; 0 is the argument left out
MaxK == 4

\* ingest_documents(file_paths, session_id) on the collection coll: the
\* collection after the call, and the documents and chunk count returned
RECURSIVE ingest_documents(_, _, _)
ingest_documents(coll, paths, sid) ==
    IF paths = <<>> THEN [collection |-> coll, docs |-> <<>>, total_chunks |-> 0]
    ELSE LET n == Len(paths)
             done == ingest_documents(coll, SubSeq(paths, 1, n - 1), sid)
             x == extract_document(paths[n])
             chunks == chunk_text(x.val.content, 0, 0)
         IN  IF x.ok
             THEN [collection |-> UpsertBatches(done.collection,
                                                ChunkRecords(sid, paths[n], x.val, chunks)),
                   docs |-> Append(done.docs, x.val),
                   total_chunks |-> done.total_chunks + Len(chunks)]
             ELSE done

\* the sequences of n distinct elements of S
RECURSIVE Arrangements(_, _)
Arrangements(S, n) ==
    IF n = 0 THEN {<<>>}
    ELSE UNION {{<<x>> \o t : t \in Arrangements(S \ {x}, n - 1)} : x \in S}

\* one dict of the list search_documents returns; id stands for the distance:
\* it tells the stored record the result came from
SearchResult(rec) == [content |-> rec.document, source |-> rec.source, id |-> rec.id]

\* n_results=min(n_results, collection.count()) without the clamp
QuerySize_unclamped(k, count) == k

\* n_results=min(n_results, collection.count())
QuerySize(k, count) == Min(k, count)

\* the n_results search_documents hands to collection.query
SearchAsked(coll, n_results) ==
    QuerySize(OrDefault(n_results, settings.top_k_retrieval), Cardinality(coll))

\* search_documents on the collection coll: the lists the call can return.  The
\* query raises when it is asked for no neighbour or for more than the
\* collection stores, or when the index fails; every exception is caught and []
\* returned.  Which records are nearest, and in which order, is the index's
\* business.
search_documents(coll, n_results, fails) ==
    LET asked == SearchAsked(coll, n_results)
    IN  IF fails \/ asked <= 0 \/ asked > Cardinality(coll)
        THEN {<<>>}
        ELSE {[i \in 1..asked |-> SearchResult(recs[i])] : recs \in Arrangements(coll, asked)}

NoOperation == [op |-> "none"]

IndexIngest ==
    /\ pc = "index"
    /\ \E sid \in IndexSessions, path \in IndexFiles :
          LET coll == get_collection(sid)
              r == ingest_documents(store[coll], <<path>>, sid)
          IN  /\ store' = [store EXCEPT ![coll] = r.collection]
              /\ call_arg' = [op |-> "ingest", session_id |-> sid, path |-> path,
                              n_results |-> 0, before |-> store]
              /\ call_ret' = [docs |-> r.docs, total_chunks |-> r.total_chunks,
                              asked |-> 0, results |-> <<>>]
    /\ UNCHANGED <<pc, gen, session_id, file_paths, ing_i, extracted_docs, total_chunks,
                   log, dimension_scores, overall, use_cases, synthesis, roadmap,
                   report, status>>

\* A search changes nothing in the index, so what can follow it is what could
\* follow the state it was made in: behaviours are not continued after it.
IndexSearch ==
    /\ pc = "index"
    /\ pc' = "searched"
    /\ \E sid \in IndexSessions, k \in 0..MaxK, fails \in BOOLEAN :
          \E out \in search_documents(store[get_collection(sid)], k, fails) :
              /\ call_arg' = [op |-> "search", session_id |-> sid, path |-> SheetXlsx,
                              n_results |-> k, before |-> store]
              /\ call_ret' = [docs |-> <<>>, total_chunks |-> 0,
                              asked |-> SearchAsked(store[get_collection(sid)], k),
                              results |-> out]
    /\ UNCHANGED <<gen, session_id, file_paths, ing_i, extracted_docs, total_chunks,
                   store, log, dimension_scores, overall, use_cases, synthesis, roadmap,
                   report, status>>

InitIndex ==
    /\ pc = "index"
    /\ gen = GenFull
    /\ session_id = SessionA
    /\ file_paths = <<>>
    /\ ing_i = 0
    /\ extracted_docs = <<>>
    /\ total_chunks = 0
    /\ store = [c \in IndexCollections |-> {}]
    /\ log = <<>>
    /\ dimension_scores = <<>>
    /\ overall = NotYet
    /\ use_cases = <<>>
    /\ synthesis = NotYet
    /\ roadmap = <<>>
    /\ report = NoReport
    /\ status = NewStatus
    /\ call_arg = NoOperation
    /\ call_ret = None

NextIndex == IndexIngest \/ IndexSearch

SpecIndex == InitIndex /\ [][NextIndex]_vars

\* the session a stored record or a search result was ingested under
IngestedUnder(id) == id[1]

\* C14: a search issued for a session returns only chunks ingested under that
\* session, and an ingestion for a session leaves the chunks every other
\* session's searches can return as they were.
C14_SessionsIsolated ==
    /\ call_arg.op = "search" =>
          \A i \in 1..Len(call_ret.results) :
              IngestedUnder(call_ret.results[i].id) = call_arg.session_id
    /\ call_arg.op = "ingest" =>
          \A sid \in IndexSessions \ {call_arg.session_id} :
              store[get_collection(sid)] = call_arg.before[get_collection(sid)]

\* the records ingesting path under sid is to store (none when it cannot be extracted)
RecordsOf(sid, path) ==
    LET x == extract_document(path)
    IN  IF x.ok
        THEN Range(ChunkRecords(sid, path, x.val, chunk_text(x.val.content, 0, 0)))
        ELSE {}

\* C15: chunk ids are a function of (session id, filename, ordinal) that tells
\* any two of these apart, and the index holds one record per id: an ingestion
\* adds exactly the document's records to what was stored, so ingesting into a
\* session a document it already holds leaves the stored set as it was, with
\* one record for each (session, filename, ordinal).
C15_IndexingIdempotent ==
    call_arg.op = "ingest" =>
        LET coll == get_collection(call_arg.session_id)
            recs == RecordsOf(call_arg.session_id, call_arg.path)
        IN  /\ store[coll] = call_arg.before[coll] \cup recs
            /\ recs \subseteq call_arg.before[coll] => store = call_arg.before
            /\ \A r, q \in store[coll] :
                  (r.id = q.id) <=> (/\ r.session_id = q.session_id
                                     /\ r.source = q.source
                                     /\ r.chunk_index = q.chunk_index)
            /\ \A r, q \in store[coll] : r.id = q.id => r = q

\* notes.txt was ingested into a session that already held its two chunks
C15_Witness ==
    /\ call_arg.op = "ingest"
    /\ call_arg.path = NotesTxt
    /\ RecordsOf(call_arg.session_id, NotesTxt) \subseteq call_arg.before[get_collection(call_arg.session_id)]
    /\ Cardinality(RecordsOf(call_arg.session_id, NotesTxt)) = 2
    /\ store = call_arg.before

\* the collection a search reads
SearchedCollection == store[get_collection(call_arg.session_id)]

\* C16 as stated: for every requested k, 0 included, search_documents asks the
\* index for at most the stored count and returns at most min(k, n) results.
C16_AtMostMinOfKAndStored_anyK ==
    call_arg.op = "search" =>
        /\ call_ret.asked <= Cardinality(SearchedCollection)
        /\ Len(call_ret.results) <= Min(call_arg.n_results, Cardinality(SearchedCollection))

\* C16: for every requested k >= 1 and every stored count n, search_documents
\* returns a list (it never raises), asks the index for at most n neighbours
\* and returns at most min(k, n) results; for n = 0 it returns the empty list,
\* whatever k.
C16_AtMostMinOfKAndStored ==
    call_arg.op = "search" =>
        /\ call_ret.asked <= Cardinality(SearchedCollection)
        /\ call_arg.n_results >= 1 =>
              Len(call_ret.results) <= Min(call_arg.n_results, Cardinality(SearchedCollection))
        /\ Cardinality(SearchedCollection) = 0 => call_ret.results = <<>>

\* a search for four neighbours in a collection of two returned two results
C16_Witness ==
    /\ call_arg.op = "search"
    /\ call_arg.n_results = 4
    /\ Cardinality(SearchedCollection) = 2
    /\ call_ret.asked = 2
    /\ Len(call_ret.results) = 2

---------------------------------------------------------------------------
(* assess_dimension up to its generation call: retrieval, evidence, prompt.
   A text is a sequence of pieces, each a string. *)

\* results[:6]
EvidenceLimit == 6

\* r['content'][:600]
ExcerptLength == 600

Sentinel == <<"No specific evidence found for this dimension.">>

Separator == <<"\n\n---\n\n">>

\* f"[Source: {r['source']}]\n{r['content'][:600]}"
Excerpt(r) == <<"[Source: ", r.source, "]\n">> \o Take(r.content, ExcerptLength)

\* sep.join(parts)
RECURSIVE Join(_, _)
Join(parts, sep) ==
    IF parts = <<>> THEN <<>>
    ELSE IF Len(parts) = 1 THEN parts[1]
    ELSE parts[1] \o sep \o Join(Tail(parts), sep)

NoResults_never(results) == FALSE

\* if not results
NoResults(results) == results = <<>>

\* _retrieve_evidence, from the list search_documents returned on
_retrieve_evidence(results) ==
    IF NoResults(results) THEN Sentinel
    ELSE LET top == Take(results, EvidenceLimit)
         IN  Join([i \in 1..Len(top) |-> Excerpt(top[i])], Separator)

\* additional_context or "No additional context provided."
ContextOrDefault(context) ==
    IF context = "" THEN "No additional context provided." ELSE context

\* DIMENSION_PROMPT.format(...): the values the template is filled with
DimensionPrompt(dimension, evidence, context) ==
    [dimension |-> dimension, evidence |-> evidence, context |-> ContextOrDefault(context)]

\* the collections a dimension is assessed on: empty, one chunk, two chunks
RetrievalCollections ==
    LET recs == RecordsOf(SessionA, NotesTxt)
    IN  {{}} \cup {{r} : r \in recs} \cup {recs}

RetrievalInputs ==
    [collection : RetrievalCollections, fails : BOOLEAN, dimension : Range(Dimension),
     context : {"", "a retail bank"}, resp : {DimensionOk(730), ServiceError}]

\* assess_dimension as a whole: the search, the evidence, the prompt, the
\* generation call and what is made of its answer
CallAssessWithRetrieval ==
    /\ pc = "call"
    /\ pc' = "returned"
    /\ \E out \in search_documents(call_arg.collection, 0, call_arg.fails) :
          LET evidence == _retrieve_evidence(out)
              prompt == DimensionPrompt(call_arg.dimension, evidence, call_arg.context)
          IN  \E r \in assess_dimension(call_arg.dimension, call_arg.resp) :
                 call_ret' = [results |-> out, evidence |-> evidence, called |-> TRUE,
                              prompt |-> prompt, result |-> r]
    /\ UNCHANGED <<gen, session_id, file_paths, ing_i, extracted_docs, total_chunks,
                   store, log, dimension_scores, overall, use_cases, synthesis,
                   roadmap, report, status, call_arg>>

InitRetrieval == \E a \in RetrievalInputs : InitCall(a)

NextRetrieval == CallAssessWithRetrieval

SpecRetrieval == InitRetrieval /\ [][NextRetrieval]_vars

\* C17: when the index query fails or the collection holds nothing,
\* search_documents yields the empty list, _retrieve_evidence returns the
\* sentinel 'No specific evidence found for this dimension.', which is not the
\* empty text, and assess_dimension issues its generation call with the
\* sentinel as the evidence; what it returns is what it makes of the answer.
C17_RetrievalFailureNotFatal ==
    pc = "returned" =>
        /\ (call_arg.fails \/ call_arg.collection = {}) => call_ret.results = <<>>
        /\ call_ret.results = <<>> =>
              /\ call_ret.evidence = <<"No specific evidence found for this dimension.">>
              /\ call_ret.called
              /\ call_ret.prompt.evidence = call_ret.evidence
              /\ call_ret.result \in assess_dimension(call_arg.dimension, call_arg.resp)
        /\ call_ret.evidence # <<>>

\* the index failed on a collection of two chunks and a score came back
C17_Witness ==
    /\ pc = "returned"
    /\ call_arg.fails
    /\ Cardinality(call_arg.collection) = 2
    /\ call_ret.evidence = Sentinel
    /\ call_ret.result.ok

---------------------------------------------------------------------------
(* C18: _retrieve_evidence on the lists search_documents can return *)

Digits == <<"1", "2", "3", "4", "5", "6", "7", "8", "9">>

\* a chunk text of the given length that starts with the digit of its place
ChunkContent(i, length) == [j \in 1..length |-> IF j = 1 THEN Digits[i] ELSE "x"]

\* lengths below, at and above the excerpt length
ContentLengths == {3, ExcerptLength, ExcerptLength + 1}

\* the lists of up to top_k_retrieval results, nearest first
ResultLists ==
    {[i \in 1..n |-> [content |-> ChunkContent(i, length), source |-> source,
                     id |-> <<SessionA, source, i - 1>>]] :
        n \in 0..settings.top_k_retrieval, length \in ContentLengths,
        source \in {"notes.txt", "plan.docx", "audit.pdf"}}

CallRetrieveEvidence ==
    /\ pc = "call"
    /\ pc' = "returned"
    /\ call_ret' = [evidence |-> _retrieve_evidence(call_arg.results)]
    /\ UNCHANGED <<gen, session_id, file_paths, ing_i, extracted_docs, total_chunks,
                   store, log, dimension_scores, overall, use_cases, synthesis,
                   roadmap, report, status, call_arg>>

InitEvidence == \E results \in ResultLists : InitCall([results |-> results])

NextEvidence == CallRetrieveEvidence

SpecEvidence == InitEvidence /\ [][NextEvidence]_vars

\* the excerpt the evidence is to hold for a retrieved chunk
ExpectedExcerpt(r) ==
    <<"[Source: ", r.source, "]\n">> \o SubSeq(r.content, 1, Min(600, Len(r.content)))

\* C18: the evidence built from a non-empty list of retrieved chunks (up to the
\* configured top-k of them) is one excerpt for each chunk, in retrieval order,
\* each with its source attribution and the first 600 characters of the chunk
\* at most, joined by the separator.
C18_ExcerptPerRetrievedChunk ==
    (pc = "returned" /\ call_arg.results # <<>>) =>
        call_ret.evidence =
            Join([i \in 1..Len(call_arg.results) |-> ExpectedExcerpt(call_arg.results[i])],
                 <<"\n\n---\n\n">>)

---------------------------------------------------------------------------
(* C19: extract_document on paths of every extension *)

Suffixes ==
    {".pdf", ".PDF", ".docx", ".Docx", ".doc", ".txt", ".TXT", ".md", ".MD",
     ".xlsx", ".XLSX", ".csv", ""}

\* the paths extract_document is applied to; units are the pages of a PDF or
\* the paragraphs of a DOCX
ExtractPaths ==
    {[dir |-> "uploads", name |-> "report" \o sfx, suffix |-> sfx, readable |-> rd,
      content |-> text, units |-> u] :
        sfx \in Suffixes, rd \in BOOLEAN, text \in {<<>>, <<"a", " ", "b">>},
        u \in {0, 30}}

CallExtractDocument ==
    /\ pc = "call"
    /\ pc' = "returned"
    /\ call_ret' = extract_document(call_arg)
    /\ UNCHANGED <<gen, session_id, file_paths, ing_i, extracted_docs, total_chunks,
                   store, log, dimension_scores, overall, use_cases, synthesis,
                   roadmap, report, status, call_arg>>

InitExtract == \E path \in ExtractPaths : InitCall(path)

NextExtract == CallExtractDocument

SpecExtract == InitExtract /\ [][NextExtract]_vars

\* the extension in lower case, letter by letter
LowerCased(sfx) ==
    CASE sfx \in {".pdf", ".PDF"} -> ".pdf"
      [] sfx \in {".docx", ".Docx"} -> ".docx"
      [] sfx \in {".txt", ".TXT"} -> ".txt"
      [] sfx \in {".md", ".MD"} -> ".md"
      [] sfx \in {".xlsx", ".XLSX"} -> ".xlsx"
      [] OTHER -> sfx

\* C19: extract_document routes on the lower-cased extension: .pdf to
\* extract_pdf, .docx and .doc to extract_docx, .txt and .md to extract_txt;
\* every other extension raises 'Unsupported file type' with the extension in
\* its message, whether or not the file can be read.
C19_DispatchOnExtension ==
    pc = "returned" =>
        LET sfx == LowerCased(call_arg.suffix)
        IN  /\ sfx = ".pdf" => call_ret = extract_pdf(call_arg)
            /\ sfx \in {".docx", ".doc"} => call_ret = extract_docx(call_arg)
            /\ sfx \in {".txt", ".md"} => call_ret = extract_txt(call_arg)
            /\ (call_ret.ok /\ sfx = ".pdf") => call_ret.val.file_type = "pdf"
            /\ (call_ret.ok /\ sfx \in {".docx", ".doc"}) => call_ret.val.file_type = "docx"
            /\ (call_ret.ok /\ sfx \in {".txt", ".md"}) => call_ret.val.file_type = "txt"
            /\ sfx \notin {".pdf", ".docx", ".doc", ".txt", ".md"} =>
                  /\ ~call_ret.ok
                  /\ call_ret.err = "ValueError: Unsupported file type: " \o sfx

\* an unreadable .XLSX was refused for its extension
C19_Witness ==
    /\ pc = "returned"
    /\ call_arg.suffix = ".XLSX"
    /\ ~call_arg.readable
    /\ call_ret = Raise("ValueError: Unsupported file type: .xlsx")

---------------------------------------------------------------------------
(* C20: chunk_text on texts shorter than chunk_size *)

MaxTextLen == 5

TextAlphabet == {"a", " ", "\n"}

\* every text of at most MaxTextLen characters that is shorter than chunk_size
ShortTexts ==
    {t \in UNION {[1..n -> TextAlphabet] : n \in 0..MaxTextLen} :
        Len(t) < settings.chunk_size}

\* chunk_text(text) with chunk_size and chunk_overlap left to the settings
CallChunkText ==
    /\ pc = "call"
    /\ pc' = "returned"
    /\ call_ret' = chunk_text(call_arg.text, 0, 0)
    /\ UNCHANGED <<gen, session_id, file_paths, ing_i, extracted_docs, total_chunks,
                   store, log, dimension_scores, overall, use_cases, synthesis,
                   roadmap, report, status, call_arg>>

InitChunk == \E t \in ShortTexts : InitCall([text |-> t])

NextChunk == CallChunkText

SpecChunk == InitChunk /\ [][NextChunk]_vars

\* C20: a text shorter than chunk_size comes back as exactly one chunk, the
\* text without its leading and trailing whitespace, whatever paragraphs and
\* blank-line runs it contains.
C20_ShortTextOneTrimmedChunk ==
    pc = "returned" => call_ret = <<Strip(call_arg.text)>>

---------------------------------------------------------------------------
(* C21..C23: chunk_text on every short text, chunk size and overlap *)

MaxSizeArg == 3

MaxOverlapArg == 2

\* texts of at most MaxTextLen characters with every chunk_size and
\* chunk_overlap in range; 0 is an argument that is 0 or left out
ChunkCalls ==
    {[text |-> t, chunk_size |-> s, chunk_overlap |-> o] :
        t \in UNION {[1..n -> TextAlphabet] : n \in 0..MaxTextLen},
        s \in 0..MaxSizeArg, o \in 0..MaxOverlapArg}

\* chunk_text(text, chunk_size, chunk_overlap): chunks is the list before the
\* overlap loop, overlapped the list returned
CallChunking ==
    /\ pc = "call"
    /\ pc' = "returned"
    /\ call_ret' =
          [chunks |-> CoreChunks(call_arg.text,
                                 OrDefault(call_arg.chunk_size, settings.chunk_size)),
           overlapped |-> chunk_text(call_arg.text, call_arg.chunk_size,
                                     call_arg.chunk_overlap)]
    /\ UNCHANGED <<gen, session_id, file_paths, ing_i, extracted_docs, total_chunks,
                   store, log, dimension_scores, overall, use_cases, synthesis,
                   roadmap, report, status, call_arg>>

InitChunking == \E c \in ChunkCalls : InitCall(c)

NextChunking == CallChunking

SpecChunking == InitChunking /\ [][NextChunking]_vars

\* the chunk size and the overlap chunk_text works with
EffectiveSize == OrDefault(call_arg.chunk_size, settings.chunk_size)

EffectiveOverlap == OrDefault(call_arg.chunk_overlap, settings.chunk_overlap)

WordsOf(text) == SplitWords(text, <<>>, <<>>)

LongestWord(text) ==
    LET ws == WordsOf(text)
    IN  IF ws = <<>> THEN 0
        ELSE CHOOSE n \in {Len(ws[i]) : i \in DOMAIN ws} :
                \A i \in DOMAIN ws : Len(ws[i]) <= n

\* C21: no chunk, before its overlap prefix is added, is longer than
\* chunk_size plus the length of one word of the text, and so no returned
\* chunk is longer than that plus the overlap prefix and its newline.
C21_CoreWithinSizePlusWord ==
    pc = "returned" =>
        LET limit == EffectiveSize + LongestWord(call_arg.text)
        IN  /\ \A i \in DOMAIN call_ret.chunks : Len(call_ret.chunks[i]) <= limit
            /\ \A i \in DOMAIN call_ret.overlapped :
                  Len(call_ret.overlapped[i]) <= limit + EffectiveOverlap + 1

\* the words of a list of texts, one text after the other
RECURSIVE WordsOfAll(_)
WordsOfAll(texts) ==
    IF texts = <<>> THEN <<>> ELSE WordsOf(Head(texts)) \o WordsOfAll(Tail(texts))

\* C22: chunk_text loses no content: the chunks before the overlap, read in
\* order, hold the words of every paragraph of the text, each once and in the
\* order of the text, and no word is cut between two chunks.
C22_NoContentLost ==
    pc = "returned" =>
        /\ WordsOfAll(call_ret.chunks) = WordsOf(call_arg.text)
        /\ WordsOfAll(Paragraphs(call_arg.text)) = WordsOf(call_arg.text)

\* a text of three words came back as three chunks
C22_Witness ==
    /\ pc = "returned"
    /\ Len(WordsOf(call_arg.text)) = 3
    /\ Len(call_ret.chunks) = 3

\* the last n characters of s, all of s when it has no more than n
TrailingChars(s, n) == IF Len(s) <= n THEN s ELSE SubSeq(s, Len(s) - n + 1, Len(s))

\* the returned chunks are the chunks before the overlap, each after the first
\* behind the last n characters of the one before it and a newline
PrefixedBy(n) ==
    /\ Len(call_ret.overlapped) = Len(call_ret.chunks)
    /\ \A i \in DOMAIN call_ret.overlapped :
          call_ret.overlapped[i] =
              IF i = 1 THEN call_ret.chunks[1]
              ELSE TrailingChars(call_ret.chunks[i - 1], n) \o <<"\n">> \o call_ret.chunks[i]

\* C23 as stated: the prefix of every chunk after the first is the last
\* `overlap` characters of the previous chunk before its own prefix, for the
\* overlap the caller passed.
C23_PrefixFromPreviousCore_anyOverlap ==
    pc = "returned" => PrefixedBy(call_arg.chunk_overlap)

\* C23: the first chunk has no prefix and every later chunk is the last
\* `overlap` characters of the previous chunk before its own prefix (all of it
\* when it is no longer than `overlap`), a newline and its own content, for
\* every overlap of at least 1.
C23_PrefixFromPreviousCore ==
    (pc = "returned" /\ call_arg.chunk_overlap >= 1) => PrefixedBy(call_arg.chunk_overlap)

\* three chunks, the third behind the tail of the second as it was before the
\* second got its prefix
C23_Witness ==
    /\ pc = "returned"
    /\ call_arg.chunk_overlap = 2
    /\ call_ret.chunks = <<<<"a">>, <<"a">>, <<"a">>>>
    /\ call_ret.overlapped[3] = <<"a", "\n", "a">>
    /\ TrailingChars(call_ret.overlapped[2], 2) # <<"a">>

---------------------------------------------------------------------------
(* C24: runs whose synthesis answer leaves keys out *)

SynthesisKeys == {"executive_summary", "critical_blockers", "quick_wins"}

\* the synthesis answers that carry only the keys of ks, each well-formed
SynthesisWith(ks) == Text(Object([k \in ks |-> SynthesisFull.json.fields[k]]))

GenOmissions ==
    [dimension |-> [i \in 1..Len(Dimension) |-> {DimensionOk(730)}],
     use_cases |-> {UseCaseAnswer(<<1, 2, 3, 4, 5>>)},
     synthesis |-> {SynthesisWith(ks) : ks \in SUBSET SynthesisKeys},
     roadmap |-> {RoadmapAnswer(<<1, 2, 3>>), ServiceError, NotJson}]

InitOmissions ==
    \E files \in {<<NotesTxt>>, <<PlanDocx>>, <<NotesTxt, PlanDocx>>} :
        InitRun(files, GenOmissions)

SpecOmissions == InitOmissions /\ [][Next]_vars

Omitted(k) == Returned("synthesise") /\ ~HasKey(synthesis.fields, k)

\* C24: a synthesis answer without executive_summary, critical_blockers or
\* quick_wins breaks nothing downstream: build_roadmap is entered with the
\* blockers the report will store, the empty list when the key is left out;
\* the run fails only on the roadmap's own answer; and the report holds the
\* empty string and empty lists for the keys left out.
C24_OmittedKeysDefault ==
    Returned("synthesise") =>
        /\ pc = "error" =>
              /\ log[Len(log)].ev = "answer"
              /\ log[Len(log)].name = "build_roadmap"
              /\ log[Len(log)].resp \in {ServiceError, NotJson}
        /\ \A k \in At("enter", "build_roadmap") :
              /\ log[k].arg = Get(synthesis.fields, "critical_blockers", List(<<>>))
              /\ Omitted("critical_blockers") => log[k].arg = List(<<>>)
              /\ pc = "complete" => report.critical_blockers = log[k].arg.v
        /\ pc = "complete" =>
              /\ Omitted("executive_summary") => report.executive_summary = ""
              /\ Omitted("critical_blockers") => report.critical_blockers = <<>>
              /\ Omitted("quick_wins") => report.quick_wins = <<>>

\* a report was produced from a synthesis answer without any of the keys
C24_Witness ==
    /\ pc = "complete"
    /\ Omitted("executive_summary") /\ Omitted("critical_blockers") /\ Omitted("quick_wins")
    /\ report.executive_summary = ""
    /\ report.critical_blockers = <<>>
    /\ report.quick_wins = <<>>
    /\ \E k \in At("enter", "build_roadmap") : log[k].arg = List(<<>>)

---------------------------------------------------------------------------
(* C25: the page counts of extracted documents *)

\* C25: every document an extractor returns has a page_count of at least 1.
C25_PageCountAtLeastOne ==
    (pc = "returned" /\ call_ret.ok) => call_ret.val.page_count >= 1

---------------------------------------------------------------------------
(* C26: the maturity stored with a dimension score *)

\* C26: the maturity_level and maturity_color of every DimensionScore are the
\* ones get_maturity gives for the stored, rounded score, also when the raw
\* score lies just below a bucket boundary and rounds onto it.
C26_MaturityOfStoredScore ==
    (pc = "returned" /\ call_ret.ok) =>
        /\ call_ret.val.maturity_level = get_maturity(call_ret.val.score).label
        /\ call_ret.val.maturity_color = get_maturity(call_ret.val.score).color

---------------------------------------------------------------------------
(* C27: how many candidates identify_use_cases returns *)

\* C27: when the call succeeds identify_use_cases returns exactly 5
\* candidates: those of the first 5 items of the answer, and an item without
\* priority_rank gets its position in the answer, counted from 1, as its rank.
C27_ExactlyFiveCandidates ==
    (pc = "returned" /\ call_ret.ok) =>
        LET items == call_arg.json.items
            ucs == call_ret.val
        IN  /\ Len(ucs) = 5
            /\ {ucs[j].title : j \in 1..Len(ucs)} = {UseCaseTitles[i] : i \in 1..5}
            /\ \A i \in 1..5 :
                  ~HasKey(items[i], "priority_rank") =>
                      \E j \in 1..Len(ucs) :
                          ucs[j].title = UseCaseTitles[i] /\ ucs[j].priority_rank = i

---------------------------------------------------------------------------
(* C28: the calls a run makes to the generation service *)

CallOrder ==
    [i \in 1..Len(Dimension) |-> "assess_dimension"]
    \o <<"identify_use_cases", "synthesise", "build_roadmap">>

\* C28: a run calls the generation service once per dimension, then once for
\* the use cases, the synthesis and the roadmap, 9 calls when it succeeds;
\* every request is a single user message; and a call that fails is the last
\* call of its run.
C28_NineSingleTurnCalls ==
    LET calls == Events("answer")
    IN  /\ IsPrefix(Names(calls), CallOrder)
        /\ \A i \in 1..Len(calls) : calls[i].arg = List(<<"user">>)
        /\ \A i \in 1..Len(Dimension) :
              i <= Len(dimension_scores) =>
                  dimension_scores[i].dimension = DimensionAt(i - 1)
        /\ pc = "complete" => Len(calls) = 9
        /\ \A i \in 1..Len(calls) :
              ~CallAndParse(calls[i].resp).ok => i = Len(calls) /\ pc = "error"

\* a run that succeeded after nine calls
C28_Witness ==
    /\ pc = "complete"
    /\ Names(Events("answer")) = CallOrder
    /\ Len(Events("answer")) = 9

---------------------------------------------------------------------------
(* C29: the index during the assessment *)

QueriesIn(l) == SelectSeq(l, LAMBDA e : e.ev = "query")

\* C29: once ingest_documents has returned, no step of the run changes the
\* chunks stored for the session, and a run that completes has queried the
\* index 7 times.
C29_IndexReadOnlyAfterIngestion ==
    [][/\ Returned("ingest_documents") => store' = store
       /\ pc' = "complete" => Len(QueriesIn(log')) = 7]_vars

\* a report was returned over a session with stored chunks, after 7 queries
C29_Witness ==
    /\ pc = "complete"
    /\ store[get_collection(session_id)] # {}
    /\ Len(QueriesIn(log)) = 7

---------------------------------------------------------------------------
(* C30: ingest_documents on lists of paths, into an empty collection *)

\* another notes.txt, in another directory and with another text
ArchivedNotesTxt ==
    [dir |-> "archive", name |-> "notes.txt", suffix |-> ".txt", readable |-> TRUE,
     content |-> <<"o", "l", "d">>, units |-> 0]

IngestFiles == {NotesTxt, ArchivedNotesTxt, PlanDocx, CorruptPdf}

IngestLists == UNION {[1..n -> IngestFiles] : n \in 0..MaxFiles}

\* ingest_documents(file_paths, session_id) on a session that stored nothing
CallIngestDocuments ==
    /\ pc = "call"
    /\ pc' = "returned"
    /\ call_ret' = ingest_documents({}, call_arg.file_paths, call_arg.session_id)
    /\ UNCHANGED <<gen, session_id, file_paths, ing_i, extracted_docs, total_chunks,
                   store, log, dimension_scores, overall, use_cases, synthesis,
                   roadmap, report, status, call_arg>>

InitIngest ==
    \E paths \in IngestLists : InitCall([file_paths |-> paths, session_id |-> SessionA])

NextIngest == CallIngestDocuments

SpecIngest == InitIngest /\ [][NextIngest]_vars

\* C30: after ingest_documents on a session that stored nothing, the session
\* holds as many records as the chunk count returned, whatever the list of
\* paths: no chunk of one document replaces a chunk of another.
C30_NoChunkOverwritten ==
    pc = "returned" => Cardinality(call_ret.collection) = call_ret.total_chunks

====
